---- MODULE Spec2Model ----
(***************************************************************************)
(* transitive-frontier: given a package id substring, a skip list and a    *)
(* package graph, report the links of the reverse-dependency closure of    *)
(* the target that cross the workspace boundary (src/src/main.rs).         *)
(*                                                                         *)
(* Strings are sequences of one-character strings, so that                 *)
(* str::contains, str::replace and format! are computed, not assumed.      *)
(* A link <<from, to>> means: package `from` depends on package `to`.      *)
(***************************************************************************)
EXTENDS Integers, Sequences, FiniteSets, TLC

VARIABLES
    graph,       \* the links of the PackageGraph (main.rs:18)
    in_ws,       \* PackageMetadata::in_workspace of every package
    opt,         \* Opt: package_id, skip, debug (main.rs:153-173)
    pc,          \* position of main
    candidates,  \* Vec of the package ids containing opt.package_id (main.rs:21)
    package_id,  \* the resolved target (main.rs:20), 0 before resolution
    stack,       \* work list of the reverse traversal (main.rs:43-45)
    included,    \* package_set: the packages selected by the traversal
    visits,      \* the packages expanded by the traversal, in order
    links,       \* the rest of the iterator package_set.links(Reverse) (main.rs:54)
    frontier,    \* HashMap<String, Vec<String>> (main.rs:51)
    seed,        \* the RandomState of the HashMap (main.rs:51)
    stderr,      \* lines written by eprintln!
    reported,    \* the links that passed the test of main.rs:56, in order
    out,         \* Option of the Output struct (main.rs:78-81)
    printed,     \* the keys in the order the serializer walks the HashMap
    run,         \* number of the invocation (1 or 2)
    prev         \* debug flag and Output of the previous invocation

vars == <<graph, in_ws, opt, pc, candidates, package_id, stack, included, visits,
          links, frontier, seed, stderr, reported, out, printed, run, prev>>

(***************************************************************************)
(* Bounds of the model.                                                    *)
(***************************************************************************)
NumNodes == 4
MaxEdges == 4

Nodes == 1..NumNodes

(***************************************************************************)
(* The packages.  Package 1 is the deepest dependency; a link goes from a  *)
(* higher number to a lower one, which keeps every graph acyclic.          *)
(***************************************************************************)
PackageName(n) ==
    CASE n = 1 -> <<"d">>
      [] n = 2 -> <<"c">>
      [] n = 3 -> <<"a", "-", "b">>
      [] n = 4 -> <<"a", "_", "b">>
      [] n = 5 -> <<"e">>
      [] OTHER -> <<"f">>

PackageVersion(n) == IF n = 3 THEN <<"2">> ELSE <<"1">>

\* PackageId::repr: "name version (source)"; the source is abridged to "#".
PackageRepr(n) == PackageName(n) \o <<" ">> \o PackageVersion(n) \o <<" ", "#">>

\* str::contains
Contains(s, sub) ==
    \E i \in 1..(Len(s) - Len(sub) + 1) : SubSeq(s, i, i + Len(sub) - 1) = sub

\* format!("{} {}", name, version)
NameVersion(n) == PackageName(n) \o <<" ">> \o PackageVersion(n)

\* display_name: m.name().replace("_", "-")
display_name(n) ==
    [i \in 1..Len(PackageName(n)) |->
        IF PackageName(n)[i] = "_" THEN "-" ELSE PackageName(n)[i]]

AllLinks == {l \in Nodes \X Nodes : l[1] > l[2]}

\* The values of -p and of --skip that are tried.
TargetPatterns == {<<"d">>, <<"c">>, <<"a">>, <<"z">>}
SkipLists == {<<>>, <<<<"c">>>>, <<<<"d">>>>, <<<<"z">>, <<"-">>>>, <<<<"c", " ">>, <<"-">>>>}

\* The workspace memberships that are tried: alternating from either side,
\* and the two most dependent packages in the workspace.
WorkspaceLayouts ==
    {[n \in Nodes |-> n % 2 = 0], [n \in Nodes |-> n % 2 = 1],
     [n \in Nodes |-> n >= 3]}

\* The packages in the order package_graph.package_ids() yields them.
RECURSIVE NodeSeqUpTo(_)
NodeSeqUpTo(n) == IF n = 0 THEN <<>> ELSE Append(NodeSeqUpTo(n - 1), n)
NodeSeq == NodeSeqUpTo(NumNodes)

NoOutput == [debug |-> FALSE, out |-> <<>>, printed |-> <<>>]

Init ==
    /\ graph \in {g \in SUBSET AllLinks : Cardinality(g) <= MaxEdges}
    /\ in_ws \in WorkspaceLayouts
    /\ opt \in [package_id : TargetPatterns, skip : SkipLists, debug : BOOLEAN]
    /\ pc = "start"
    /\ candidates = <<>>
    /\ package_id = 0
    /\ stack = <<>>
    /\ included = {}
    /\ visits = <<>>
    /\ links = <<>>
    /\ frontier = <<>>
    /\ seed = 0
    /\ stderr = <<>>
    /\ reported = <<>>
    /\ out = <<>>
    /\ printed = <<>>
    /\ run = 1
    /\ prev = NoOutput

(***************************************************************************)
(* Target resolution, main.rs:20-40.                                       *)
(***************************************************************************)
Matches(n) == Contains(PackageRepr(n), opt.package_id)

Candidates == SelectSeq(NodeSeq, Matches)

\* main.rs:29, with the variant that settles for the first candidate
FirstMatch(c) == Len(c) >= 1

\* main.rs:29: candidates.len() == 1
Unique(c) == Len(c) = 1

CandidateLines(c) == [i \in 1..Len(c) |-> <<"candidate", PackageRepr(c[i])>>]

ResolveTarget ==
    /\ pc = "start"
    /\ candidates' = Candidates
    /\ IF Unique(candidates')
       THEN /\ package_id' = candidates'[1]
            /\ pc' = "query"
            /\ stderr' = stderr
       ELSE /\ package_id' = package_id
            /\ pc' = "failed"
            /\ stderr' = stderr \o CandidateLines(candidates')
                                \o <<<<"error", opt.package_id>>>>
    /\ UNCHANGED <<graph, in_ws, opt, stack, included, visits, links, frontier,
                   seed, reported, out, printed, run, prev>>

(***************************************************************************)
(* The reverse query and its resolution, main.rs:43-45.  The closure       *)
(* passed to resolve_with_fn accepts a link unless the repr of its `to`    *)
(* package contains one of the skip strings.                               *)
(***************************************************************************)
SkipMatches(n) == \E i \in 1..Len(opt.skip) : Contains(PackageRepr(n), opt.skip[i])

\* query_reverse(iter::once(package_id)): the traversal starts at the target.
QueryReverse ==
    /\ pc = "query"
    /\ stack' = <<package_id>>
    /\ included' = {package_id}
    /\ pc' = "resolve"
    /\ UNCHANGED <<graph, in_ws, opt, candidates, package_id, visits, links,
                   frontier, seed, stderr, reported, out, printed, run, prev>>

\* Variant of Accept that tests the `from` end of the link.
AcceptFrom(l) == ~SkipMatches(l[1])

Accept(l) == ~SkipMatches(l[2])

\* Variant of Discovered that follows one link into `to` only.
DiscoveredFirst(to) ==
    LET all == SelectSeq(NodeSeq, LAMBDA from : /\ <<from, to>> \in graph
                                                /\ ~SkipMatches(to)
                                                /\ from \notin included)
    IN  IF all = <<>> THEN <<>> ELSE <<Head(all)>>

\* Variant of Discovered without the visited set.
DiscoveredAgain(to) ==
    SelectSeq(NodeSeq, LAMBDA from : <<from, to>> \in graph /\ ~SkipMatches(to))

\* The packages to add when the traversal expands `to`: the sources of the
\* accepted links into it that are not selected yet.
Discovered(to) ==
    SelectSeq(NodeSeq, LAMBDA from : /\ <<from, to>> \in graph
                                     /\ Accept(<<from, to>>)
                                     /\ from \notin included)

Range(s) == {s[i] : i \in 1..Len(s)}

ResolveStep ==
    /\ pc = "resolve"
    /\ stack # <<>>
    /\ LET to == Head(stack)
           new == Discovered(to)
       IN  /\ visits' = Append(visits, to)
           /\ included' = included \cup Range(new)
           /\ stack' = new \o Tail(stack)
    /\ UNCHANGED <<graph, in_ws, opt, pc, candidates, package_id, links, frontier,
                   seed, stderr, reported, out, printed, run, prev>>

(***************************************************************************)
(* main.rs:47-54: the debug header, the empty HashMap and the iterator     *)
(* over the links of the package set.  PackageSet::links yields every link *)
(* of the graph with both ends in the set, in topological order.           *)
(***************************************************************************)
SeedSet == {0, 1}

\* Variant of PackageSetLinks that leaves out the links the resolver rejected.
PackageSetLinksAccepted(set) ==
    LET isIn(l) == l \in graph /\ l[1] \in set /\ l[2] \in set /\ ~SkipMatches(l[2])
        RECURSIVE Walk(_, _)
        Walk(to, from) ==
            IF to > NumNodes THEN <<>>
            ELSE IF from > NumNodes THEN Walk(to + 1, 1)
            ELSE (IF isIn(<<from, to>>) THEN <<<<from, to>>>> ELSE <<>>)
                 \o Walk(to, from + 1)
    IN  Walk(1, 1)

PackageSetLinks(set) ==
    LET isIn(l) == l \in graph /\ l[1] \in set /\ l[2] \in set
        RECURSIVE Walk(_, _)
        Walk(to, from) ==
            IF to > NumNodes THEN <<>>
            ELSE IF from > NumNodes THEN Walk(to + 1, 1)
            ELSE (IF isIn(<<from, to>>) THEN <<<<from, to>>>> ELSE <<>>)
                 \o Walk(to, from + 1)
    IN  Walk(1, 1)

NewFrontier ==
    /\ pc = "resolve"
    /\ stack = <<>>
    /\ seed' \in SeedSet
    /\ frontier' = <<>>
    /\ links' = PackageSetLinks(included)
    /\ stderr' = IF opt.debug THEN Append(stderr, <<"header", PackageRepr(package_id)>>)
                 ELSE stderr
    /\ pc' = "scan"
    /\ UNCHANGED <<graph, in_ws, opt, candidates, package_id, stack, included,
                   visits, reported, out, printed, run, prev>>

(***************************************************************************)
(* One iteration of the loop of main.rs:54-71.                             *)
(***************************************************************************)
\* Variant of IsBoundary with `or` in the place of `xor`.
IsBoundaryOr(l) == in_ws[l[2]] \/ in_ws[l[1]]

\* main.rs:56: link.to().in_workspace() != link.from().in_workspace()
IsBoundary(l) == in_ws[l[2]] # in_ws[l[1]]

\* main.rs:59-66
DebugLine(l) ==
    <<IF l[2] = package_id THEN "direct" ELSE "indirect",
      display_name(l[1]), PackageName(l[2])>>

\* Variant of Push for a collection kept in the order of the hasher.
PushHashed(list, item) == IF seed = 1 THEN <<item>> \o list ELSE Append(list, item)

\* Vec::push
Push(list, item) == Append(list, item)

\* Variant of Insert that replaces the entry of the key.
InsertReplace(map, l) ==
    LET key == display_name(l[1])
    IN  [k \in DOMAIN map \cup {key} |->
            IF k = key THEN <<NameVersion(l[2])>> ELSE map[k]]

\* Variant of Insert that, with --debug, records the direct links only.
InsertDirectOnDebug(map, l) ==
    LET key == display_name(l[1])
        entry == IF key \in DOMAIN map THEN map[key] ELSE <<>>
    IN  IF opt.debug /\ l[2] # package_id THEN map
        ELSE [k \in DOMAIN map \cup {key} |->
                IF k = key THEN Append(entry, NameVersion(l[2])) ELSE map[k]]

\* main.rs:68-69: frontier.entry(dependency_source).or_insert_with(Vec::new),
\* then entry.push(format!("{} {}", name, version))
Insert(map, l) ==
    LET key == display_name(l[1])
        entry == IF key \in DOMAIN map THEN map[key] ELSE <<>>
    IN  [k \in DOMAIN map \cup {key} |->
            IF k = key THEN Push(entry, NameVersion(l[2])) ELSE map[k]]

ScanLink ==
    /\ pc = "scan"
    /\ links # <<>>
    /\ LET l == Head(links)
       IN  IF IsBoundary(l)
           THEN /\ frontier' = Insert(frontier, l)
                /\ reported' = Append(reported, l)
                /\ stderr' = IF opt.debug THEN Append(stderr, DebugLine(l))
                             ELSE stderr
           ELSE UNCHANGED <<frontier, reported, stderr>>
    /\ links' = Tail(links)
    /\ UNCHANGED <<graph, in_ws, opt, pc, candidates, package_id, stack, included,
                   visits, seed, out, printed, run, prev>>

(***************************************************************************)
(* main.rs:73-91: the Output struct and its serialization.  The serializer *)
(* walks the HashMap in the order its RandomState gives.                   *)
(***************************************************************************)
KeyOrder(s) ==
    LET keep(n) == /\ display_name(n) \in DOMAIN frontier
                   /\ \A m \in 1..(n - 1) : display_name(m) # display_name(n)
        up == SelectSeq(NodeSeq, keep)
    IN  IF s = 0 THEN [i \in 1..Len(up) |-> display_name(up[i])]
        ELSE [i \in 1..Len(up) |-> display_name(up[Len(up) + 1 - i])]

Emit ==
    /\ pc = "scan"
    /\ links = <<>>
    /\ out' = <<[target_dependency |-> NameVersion(package_id),
                 frontier |-> frontier]>>
    /\ printed' = KeyOrder(seed)
    /\ pc' = "done"
    /\ UNCHANGED <<graph, in_ws, opt, candidates, package_id, stack, included,
                   visits, links, frontier, seed, stderr, reported, run, prev>>

(***************************************************************************)
(* A second invocation on the same graph, package id and skip list.        *)
(***************************************************************************)
Rerun ==
    /\ pc = "done"
    /\ run = 1
    /\ run' = 2
    /\ prev' = [debug |-> opt.debug, out |-> out, printed |-> printed]
    /\ \E d \in BOOLEAN : opt' = [opt EXCEPT !.debug = d]
    /\ pc' = "start"
    /\ candidates' = <<>>
    /\ package_id' = 0
    /\ stack' = <<>>
    /\ included' = {}
    /\ visits' = <<>>
    /\ links' = <<>>
    /\ frontier' = <<>>
    /\ seed' = 0
    /\ stderr' = <<>>
    /\ reported' = <<>>
    /\ out' = <<>>
    /\ printed' = <<>>
    /\ UNCHANGED <<graph, in_ws>>

\* One invocation of main.
Main ==
    \/ ResolveTarget
    \/ QueryReverse
    \/ ResolveStep
    \/ NewFrontier
    \/ ScanLink
    \/ Emit

Next ==
    \/ Main
    \/ Rerun

Spec == Init /\ [][Next]_vars

\* One invocation.  main is sequential and never waits: whenever it has a
\* step to take, it takes it.
FairSpec == Init /\ [][Main]_vars /\ WF_vars(Main)

(***************************************************************************)
(* Properties.                                                             *)
(***************************************************************************)
Traversing == pc \in {"query", "resolve", "scan", "done"}
Resolved == pc \in {"scan", "done"}
NothingDone ==
    /\ stack = <<>> /\ included = {} /\ visits = <<>> /\ links = <<>>
    /\ frontier = <<>> /\ reported = <<>> /\ out = <<>> /\ printed = <<>>

NoDuplicates(s) == \A i, j \in 1..Len(s) : s[i] = s[j] => i = j

\* The links of the graph with both ends in the package set.
Induced == {l \in graph : l[1] \in included /\ l[2] \in included}

\* n reaches t along links the skip list does not reject.
RECURSIVE HasAdmissiblePath(_, _, _)
HasAdmissiblePath(g, n, t) ==
    \/ n = t
    \/ \E l \in g : /\ l[1] = n
                    /\ ~SkipMatches(l[2])
                    /\ HasAdmissiblePath(g, l[2], t)

Ancestors(g, t) == {n \in Nodes : HasAdmissiblePath(g, n, t)}

\* The name of a package with every underscore replaced by a hyphen.
RECURSIVE Kebab(_)
Kebab(s) ==
    IF s = <<>> THEN <<>>
    ELSE <<IF Head(s) = "_" THEN "-" ELSE Head(s)>> \o Kebab(Tail(s))

\* The "name version" strings of the links of s whose source displays as k.
RECURSIVE EntriesOf(_, _)
EntriesOf(k, s) ==
    IF s = <<>> THEN <<>>
    ELSE (IF Kebab(PackageName(Head(s)[1])) = k
          THEN <<PackageName(Head(s)[2]) \o <<" ">> \o PackageVersion(Head(s)[2])>>
          ELSE <<>>) \o EntriesOf(k, Tail(s))

RECURSIVE TotalEntries(_, _)
TotalEntries(map, keys) ==
    IF keys = {} THEN 0
    ELSE LET k == CHOOSE x \in keys : TRUE
         IN  Len(map[k]) + TotalEntries(map, keys \ {k})

Diamond == {<<4, 3>>, <<4, 2>>, <<3, 1>>, <<2, 1>>}
Chain == {<<4, 3>>, <<3, 2>>, <<2, 1>>}

\* C1: every entry of the frontier comes from a link of the graph of which
\* exactly one end is in the workspace; a link with both ends or neither end
\* in the workspace never gives an entry.
C1_BoundaryOnly ==
    /\ \A i \in 1..Len(reported) :
          LET l == reported[i]
          IN  /\ l \in graph
              /\ (in_ws[l[1]] /\ ~in_ws[l[2]]) \/ (~in_ws[l[1]] /\ in_ws[l[2]])
    /\ \A k \in DOMAIN frontier : \A j \in 1..Len(frontier[k]) :
          \E i \in 1..Len(reported) :
              /\ Kebab(PackageName(reported[i][1])) = k
              /\ NameVersion(reported[i][2]) = frontier[k][j]

\* A finished run that reported a link leaving the workspace and a link
\* entering it, and scanned a link that stays on one side.
C1_Witness ==
    /\ pc = "done"
    /\ \E i, j \in 1..Len(reported) :
          in_ws[reported[i][1]] /\ in_ws[reported[j][2]]
    /\ \E l \in Induced : in_ws[l[1]] = in_ws[l[2]]

C3_ClosureComplete ==
    Resolved =>
        /\ included = Ancestors(graph, package_id)
        /\ NoDuplicates(visits)
        /\ Range(visits) = included
        /\ \A e \in graph : Ancestors(graph \ {e}, package_id) \subseteq included

\* A finished run on the diamond 4 -> {3, 2} -> 1 that selected all of it.
C3_Witness ==
    /\ pc = "done"
    /\ Diamond \subseteq graph
    /\ package_id = 1
    /\ included = {1, 2, 3, 4}
    /\ Len(visits) = 4

\* C4: the run goes on to the traversal only when exactly one package id
\* contains the substring; otherwise it fails before any traversal or
\* classification, with the candidates listed and no report.
C4_TargetExclusive ==
    LET m == {n \in Nodes : Contains(PackageRepr(n), opt.package_id)}
    IN  /\ Traversing => m = {package_id}
        /\ Cardinality(m) # 1 => pc \in {"start", "failed"}
        /\ pc \in {"start", "failed"} => NothingDone
        /\ pc = "failed" =>
              /\ Cardinality(m) # 1
              /\ Range(candidates) = m
              /\ Len(stderr) = Cardinality(m) + 1

\* A run that failed on two candidates.
C4_Witness == pc = "failed" /\ Len(candidates) = 2

\* C5: the traversal starts at the target and the skip list rejects a link by
\* its `to` end only: the target is always selected, the source of a link
\* into a selected package that no skip string matches is selected, and every
\* other selected package has such a link (scenario 2: the chain
\* 4 -> 3 -> 2 -> 1 with target 1 and skip ["c"] gives {2, 1} and an empty
\* frontier).
C5_SkipByTo ==
    /\ pc \in {"resolve", "scan", "done"} => package_id \in included
    /\ Resolved =>
          /\ \A l \in graph :
                l[2] \in included /\ ~SkipMatches(l[2]) => l[1] \in included
          /\ \A n \in included \ {package_id} :
                \E l \in graph :
                    l[1] = n /\ l[2] \in included /\ ~SkipMatches(l[2])
    /\ (/\ pc = "done" /\ graph = Chain /\ package_id = 1
        /\ opt.skip = <<<<"c">>>> /\ in_ws = [n \in Nodes |-> n >= 3])
          => included = {1, 2} /\ out[1].frontier = <<>>

\* Scenario 2 finished, and the skip list matching the target itself.
C5_Witness ==
    /\ pc = "done"
    /\ graph = Chain
    /\ package_id = 1
    /\ opt.skip = <<<<"c">>>>
    /\ in_ws = [n \in Nodes |-> n >= 3]
    /\ SkipMatches(2)
    /\ 2 \in included
    /\ 3 \notin included

\* C6: two invocations on the same graph, package id and skip list give the
\* same Output: the same target string, the same keys and the same lists in
\* the same order.
C6_Deterministic ==
    (run = 2 /\ pc = "done" /\ prev.debug = opt.debug) => out = prev.out

\* A second invocation that printed the keys in another order than the first
\* and holds a list of two entries.
C6_Witness ==
    /\ run = 2
    /\ pc = "done"
    /\ prev.debug = opt.debug
    /\ printed # prev.printed
    /\ \E k \in DOMAIN frontier : Len(frontier[k]) >= 2

\* C7: the keys are the names of the `from` packages with every underscore
\* replaced by a hyphen; the links whose sources share that name add their
\* "name version" string to the one list of the key, in the order of the
\* scan, and no key has an empty list.
C7_Grouping ==
    /\ DOMAIN frontier = {Kebab(PackageName(reported[i][1])) : i \in 1..Len(reported)}
    /\ \A k \in DOMAIN frontier :
          /\ frontier[k] # <<>>
          /\ \A i \in 1..Len(k) : k[i] # "_"
          /\ frontier[k] = EntriesOf(k, reported)

\* The packages a-b and a_b both reported under the key a-b.
C7_Witness ==
    /\ pc = "done"
    /\ \E i, j \in 1..Len(reported) : reported[i][1] = 3 /\ reported[j][1] = 4
    /\ Len(frontier[<<"a", "-", "b">>]) >= 2

\* C8: every link with both ends in the package set and exactly one end in
\* the workspace gives exactly one entry: the number of entries is the number
\* of those links.
C8_ReportComplete ==
    pc = "done" =>
        LET crossing == {l \in Induced : in_ws[l[1]] # in_ws[l[2]]}
        IN  /\ Range(reported) = crossing
            /\ Len(reported) = Cardinality(crossing)
            /\ TotalEntries(out[1].frontier, DOMAIN out[1].frontier)
                  = Cardinality(crossing)

\* A finished run on the diamond, two links of which cross the boundary.
C8_Witness ==
    /\ pc = "done"
    /\ Diamond \subseteq graph
    /\ included = Nodes
    /\ Len(reported) = 2
    /\ TotalEntries(frontier, DOMAIN frontier) = 2

\* C9: once the target is resolved the run ends with a report, and the
\* traversal expands no package twice and never holds a package twice.
C9_Terminates ==
    /\ (pc = "query") ~> (pc = "done")
    /\ [](/\ NoDuplicates(visits)
          /\ NoDuplicates(stack)
          /\ Range(stack) \cap Range(visits) = {}
          /\ Range(stack) \cup Range(visits) = included)

\* A traversal of the diamond with both middle packages waiting.
C9_Witness ==
    /\ pc = "resolve"
    /\ Diamond \subseteq graph
    /\ Len(stack) = 2
    /\ visits = <<1>>

\* C10: --debug does not change the Output; the labels are only printed, one
\* per reported link, "direct" exactly when the `to` of the link is the target.
C10_DebugNoEffect ==
    /\ (run = 2 /\ pc = "done" /\ prev.debug # opt.debug) => out = prev.out
    /\ Resolved =>
          IF opt.debug
          THEN /\ Len(stderr) = Len(reported) + 1
               /\ \A i \in 1..Len(reported) :
                     stderr[i + 1][1] = "direct" <=> reported[i][2] = package_id
          ELSE stderr = <<>>

\* A second invocation with the other debug setting that reported a direct
\* and an indirect link.
C10_Witness ==
    /\ run = 2
    /\ pc = "done"
    /\ prev.debug # opt.debug
    /\ \E i, j \in 1..Len(reported) :
          reported[i][2] = package_id /\ reported[j][2] # package_id

====
